---- MODULE Spec2Model ----
(***************************************************************************)
(* A model of the lucid-query-pilot front end: the HTTP API client          *)
(* (src/api/query.ts, src/api/schema.ts), the schema upload page            *)
(* (src/pages/SchemaUpload.tsx) and the dashboard page (Dashboard.tsx).     *)
(*                                                                         *)
(* These specifications share the variables:                               *)
(*   SpecApi     one API client call against an arbitrary HTTP response    *)
(*   SpecAbort   one call of uploadSchema with the ten-minute abort timer  *)
(*   SpecUpload  the upload page, its timers and the router                *)
(*               (SpecUploadFair: the same, with timers that fire)         *)
(*   SpecDash    one dashboard session with its two action chains          *)
(*   SpecApp     a call, an upload page or a dashboard session             *)
(*   SpecMount   a dashboard session from its two mount effects on         *)
(***************************************************************************)
EXTENDS Integers, Sequences, FiniteSets, TLC

(***************************************************************************)
(* JSON values and HTTP responses.                                         *)
(* A JSON object is a TLA+ record: a field is present iff it is in the     *)
(* record's DOMAIN.  A body is either unparseable text, the JSON value     *)
(* null, or an object.                                                     *)
(***************************************************************************)
JsonInvalid == [kind |-> "invalid"]
JsonNull == [kind |-> "null"]
JsonObject(o) == [kind |-> "object", fields |-> o]

\* Response.ok: the status is in the range 200-299.
ResponseOk(status) == status >= 200 /\ status <= 299

\* A settled fetch: the request failed at the network level (fetch rejects),
\* or a response with a status and a body arrived.
NetworkFailure == [net |-> "failed"]
HttpResponse(status, body) == [net |-> "ok", status |-> status, body |-> body]

\* Outcomes of an async function: it returns a value or throws an Error.
Return(v) == [type |-> "return", value |-> v]
Throw(m) == [type |-> "throw", message |-> m]

\* fetch() rejecting: a TypeError whose message the browser chooses.
FetchFailedMessage == "Failed to fetch"

\* The message of the error `response.json()` rejects with on a body that is
\* not JSON (a SyntaxError; the text is the engine's, never the caller's).
JsonSyntaxErrorMessage == "Unexpected token < in JSON at position 0"

\* The message of the TypeError `error.detail` throws when the body is null.
NullDetailMessage == "Cannot read properties of null (reading 'detail')"

\* `error.detail || fallback` on a parsed object: the detail when it is present
\* and truthy (a non-empty string), and the fallback otherwise.
DetailOr(o, fallback) ==
  IF "detail" \in DOMAIN o /\ o["detail"] # "" THEN o["detail"] ELSE fallback

\* `response.json()`: rejects on unparseable text, else yields the value.
ResponseJson(body) ==
  IF body.kind = "invalid" THEN Throw(JsonSyntaxErrorMessage) ELSE Return(body)

\* (mutant) the server's detail is dropped: always the fallback.
ThrowDetailDropped(body, fallback) ==
  IF body.kind = "invalid" THEN Throw(JsonSyntaxErrorMessage)
  ELSE IF body.kind = "null" THEN Throw(NullDetailMessage)
  ELSE Throw(fallback)

\* The error path shared by generateSQL, executeSQL, analyzeResults and
\* uploadSchema:
\*     const error = await response.json();
\*     throw new Error(error.detail || fallback);
ThrowDetail(body, fallback) ==
  IF body.kind = "invalid" THEN Throw(JsonSyntaxErrorMessage)
  ELSE IF body.kind = "null" THEN Throw(NullDetailMessage)
  ELSE Throw(DetailOr(body.fields, fallback))

\* A client function that reads `detail` on a non-ok response.
DetailClient(r, fallback) ==
  IF r.net = "failed" THEN Throw(FetchFailedMessage)
  ELSE IF ~ResponseOk(r.status) THEN ThrowDetail(r.body, fallback)
  ELSE ResponseJson(r.body)

\* A client function that throws a fixed message on a non-ok response.
FixedClient(r, message) ==
  IF r.net = "failed" THEN Throw(FetchFailedMessage)
  ELSE IF ~ResponseOk(r.status) THEN Throw(message)
  ELSE ResponseJson(r.body)

generateSQL(r) == DetailClient(r, "Failed to generate SQL")
fetchActiveSchema(r) == FixedClient(r, "Failed to fetch schema status")
listConnections(r) == FixedClient(r, "Failed to fetch database connections")
executeSQL(r) == DetailClient(r, "Failed to execute SQL")
analyzeResults(r) == DetailClient(r, "Failed to generate analysis")
uploadSchema(r) == DetailClient(r, "Failed to upload schema")

ApiOps ==
  {"uploadSchema", "fetchActiveSchema", "listConnections",
   "generateSQL", "executeSQL", "analyzeResults"}

\* The operation's fixed fallback string.
Fallback(op) ==
  CASE op = "uploadSchema" -> "Failed to upload schema"
    [] op = "fetchActiveSchema" -> "Failed to fetch schema status"
    [] op = "listConnections" -> "Failed to fetch database connections"
    [] op = "generateSQL" -> "Failed to generate SQL"
    [] op = "executeSQL" -> "Failed to execute SQL"
    [] op = "analyzeResults" -> "Failed to generate analysis"

ApiCall(op, r) ==
  CASE op = "uploadSchema" -> uploadSchema(r)
    [] op = "fetchActiveSchema" -> fetchActiveSchema(r)
    [] op = "listConnections" -> listConnections(r)
    [] op = "generateSQL" -> generateSQL(r)
    [] op = "executeSQL" -> executeSQL(r)
    [] op = "analyzeResults" -> analyzeResults(r)

(***************************************************************************)
(* State.                                                                  *)
(***************************************************************************)
VARIABLES
  \* one API client call: its position, operation, response and outcome
  apiPc, apiOp, apiResponse, apiOutcome,
  \* the router's current path and the root component's refresh counter
  route, schemaRefreshKey,
  \* the toast last shown (the toaster is global to the application)
  toast,
  \* SchemaUpload: the mounted instance's state
  uploadStatus, uploadProgress, uploadedFile,
  \* SchemaUpload: progressInterval is armed; the uploadSchema call of the
  \* mounted instance is in flight
  progressInterval, uploadRequest,
  \* uploadSchema calls in flight whose page instance was unmounted (the file
  \* each one closed over)
  orphanUploads,
  \* pending setTimeout(navigate) timers, and how many have fired
  navTimers, timerNavigations,
  \* uploads started so far (bounds the model)
  uploadsStarted,
  \* the settlement handleFileUpload resumed on last, and the calls its
  \* continuation made, in order
  lastUpload,
  \* Dashboard: the component's state
  naturalLanguageQuery, generatedSQL, editableSQL, isEditingSQL,
  queryResults, naturalLanguageResponse,
  isGenerating, isExecuting, isAnalyzing,
  \* Dashboard: the running (or last) invocation of handleGenerateSQL and of
  \* handleExecuteSQL: position, closed-over state, locals, calls made
  genChain, execChain,
  \* Dashboard: the response a handler's await received last
  lastResponse,
  \* Dashboard: the question that was sent to generateSQL in the call that
  \* returned the SQL now in generatedSQL
  generatedFrom,
  \* uploadSchema with the abort timer: the function's position, whether its
  \* setTimeout is armed, controller.signal.aborted, the minutes since the
  \* call, the response fetch resolved with, and the call's outcome
  abortPc, timeout, signalAborted, elapsed, abortResponse, abortOutcome,
  \* Dashboard: the state its two mount effects write
  hasSchema, schemaName, connections, selectedConnectionId,
  \* Dashboard: the mount effects' calls are in flight (listConnections,
  \* fetchActiveSchema), and the response a mount effect received last
  connectionsFetch, statusCheck, mountResponse

callVars == <<apiPc, apiOp, apiResponse, apiOutcome>>
abortVars ==
  <<abortPc, timeout, signalAborted, elapsed, abortResponse, abortOutcome>>
apiVars == <<callVars, abortVars>>
appVars == <<route, schemaRefreshKey, toast>>
uploadVars ==
  <<uploadStatus, uploadProgress, uploadedFile, progressInterval, uploadRequest,
    orphanUploads, navTimers, timerNavigations, uploadsStarted, lastUpload>>
dashState ==
  <<naturalLanguageQuery, generatedSQL, editableSQL, isEditingSQL,
    queryResults, naturalLanguageResponse, isGenerating, isExecuting, isAnalyzing>>
dashVars == <<dashState, genChain, execChain, lastResponse, generatedFrom>>
mountVars ==
  <<hasSchema, schemaName, connections, selectedConnectionId,
    connectionsFetch, statusCheck, mountResponse>>
vars == <<apiVars, appVars, uploadVars, dashVars, mountVars>>

(***************************************************************************)
(* SpecApi: one call of an API client function.                            *)
(***************************************************************************)
HttpStatuses == {200, 201, 400, 404, 500}

\* Bodies a server (or a proxy in front of it) can send.
ApiBodies ==
  { JsonInvalid,
    JsonNull,
    JsonObject([detail |-> "rate limited"]),
    JsonObject([detail |-> ""]),
    JsonObject([error |-> "oops"]),
    JsonObject([generated_sql |-> "SELECT 1"]) }

ApiResponses ==
  {NetworkFailure} \cup {HttpResponse(s, b) : s \in HttpStatuses, b \in ApiBodies}

NoResponse == [net |-> "none"]
Pending == [type |-> "pending"]

InitApi ==
  /\ apiPc = "idle"
  /\ apiOp = "none"
  /\ apiResponse = NoResponse
  /\ apiOutcome = Pending

\* The caller invokes the function: the request goes out.
ApiRequest ==
  /\ apiPc = "idle"
  /\ \E op \in ApiOps : apiOp' = op
  /\ apiPc' = "pending"
  /\ UNCHANGED <<apiResponse, apiOutcome, abortVars, appVars, uploadVars,
                 dashVars,
                 mountVars>>

\* The fetch settles and the function runs to its return or throw.
ApiSettle ==
  /\ apiPc = "pending"
  /\ \E r \in ApiResponses :
       /\ apiResponse' = r
       /\ apiOutcome' = ApiCall(apiOp, r)
  /\ apiPc' = "settled"
  /\ UNCHANGED <<apiOp, abortVars, appVars, uploadVars, dashVars,
                 mountVars>>

NextApi == ApiRequest \/ ApiSettle

(***************************************************************************)
(* SpecAbort: one call of the uploadSchema variant that aborts its fetch    *)
(* after ten minutes.  Time is counted in whole minutes.                   *)
(***************************************************************************)
\* Minutes a behaviour follows a call for.
MaxMinutes == 12

\* `10 * 60 * 1000` milliseconds
TimeoutMinutes == 10

\* An Error (or DOMException) by name and message.
ThrowNamed(name, m) == [type |-> "throw", name |-> name, message |-> m]

\* The message of the AbortError a fetch rejects with once its signal is
\* aborted by `controller.abort()` (no reason given): the browser's text.
AbortMessages ==
  { "signal is aborted without reason",
    "The user aborted a request.",
    "The operation was aborted.",
    "Fetch is aborted" }

AbortResponses ==
  { HttpResponse(200, JsonObject([schema_id |-> "abc"])),
    HttpResponse(200, JsonInvalid),
    HttpResponse(413, JsonObject([detail |-> "File too large"])),
    HttpResponse(504, JsonInvalid) }

InitAbort ==
  /\ abortPc = "idle"
  /\ timeout = FALSE
  /\ signalAborted = FALSE
  /\ elapsed = 0
  /\ abortResponse = NoResponse
  /\ abortOutcome = Pending

\* uploadSchema from its start to `await fetch(..., {signal})`.
AbortUploadCall ==
  /\ abortPc = "idle"
  /\ abortPc' = "fetch"
  /\ timeout' = TRUE
  /\ UNCHANGED <<signalAborted, elapsed, abortResponse, abortOutcome,
                 callVars, appVars, uploadVars, dashVars,
                 mountVars>>

\* A minute passes while the call runs.  An armed timer that is due runs
\* before more time passes.
MinutePasses ==
  /\ abortPc \in {"fetch", "json"}
  /\ elapsed < MaxMinutes
  /\ ~(timeout /\ elapsed >= TimeoutMinutes)
  /\ elapsed' = elapsed + 1
  /\ UNCHANGED <<abortPc, timeout, signalAborted, abortResponse, abortOutcome,
                 callVars, appVars, uploadVars, dashVars,
                 mountVars>>

\* The setTimeout callback: `controller.abort()`.
TimeoutFires ==
  /\ timeout
  /\ elapsed >= TimeoutMinutes
  /\ timeout' = FALSE
  /\ signalAborted' = TRUE
  /\ UNCHANGED <<abortPc, elapsed, abortResponse, abortOutcome,
                 callVars, appVars, uploadVars, dashVars,
                 mountVars>>

\* The aborted fetch rejects with an AbortError; the catch block clears the
\* timer and rethrows the error as it is.
FetchAborted ==
  /\ abortPc = "fetch"
  /\ signalAborted
  /\ \E m \in AbortMessages : abortOutcome' = ThrowNamed("AbortError", m)
  /\ timeout' = FALSE
  /\ abortPc' = "done"
  /\ UNCHANGED <<signalAborted, elapsed, abortResponse,
                 callVars, appVars, uploadVars, dashVars,
                 mountVars>>

\* The fetch fails at the network: catch, clearTimeout, rethrow.
FetchFails ==
  /\ abortPc = "fetch"
  /\ ~signalAborted
  /\ abortOutcome' = ThrowNamed("TypeError", FetchFailedMessage)
  /\ timeout' = FALSE
  /\ abortPc' = "done"
  /\ UNCHANGED <<signalAborted, elapsed, abortResponse,
                 callVars, appVars, uploadVars, dashVars,
                 mountVars>>

\* (mutant) the timer is left armed when the fetch resolves.
ArmedAfterClearTimeoutSkipped == timeout

\* `clearTimeout(timeout)`: the timer is no longer armed.
ArmedAfterClearTimeout == FALSE

\* The fetch resolves with a response: `clearTimeout(timeout)`, then the body
\* is read (`await response.json()`).
FetchResolves ==
  /\ abortPc = "fetch"
  /\ ~signalAborted
  /\ \E r \in AbortResponses : abortResponse' = r
  /\ timeout' = ArmedAfterClearTimeout
  /\ abortPc' = "json"
  /\ UNCHANGED <<signalAborted, elapsed, abortOutcome,
                 callVars, appVars, uploadVars, dashVars,
                 mountVars>>

\* The name of the error a failed call throws: the parser's SyntaxError, the
\* TypeError of reading `detail` of null, or the Error made from `detail`.
ErrorName(body) ==
  IF body.kind = "invalid" THEN "SyntaxError"
  ELSE IF body.kind = "null" THEN "TypeError"
  ELSE "Error"

\* The body has been read: the function returns it, or throws through the
\* catch block, which clears the timer again.
BodyRead ==
  /\ abortPc = "json"
  /\ LET outcome == uploadSchema(abortResponse) IN
     /\ abortOutcome' =
          IF outcome.type = "return" THEN outcome
          ELSE ThrowNamed(ErrorName(abortResponse.body), outcome.message)
     /\ timeout' =
          IF outcome.type = "return" THEN timeout ELSE ArmedAfterClearTimeout
  /\ abortPc' = "done"
  /\ UNCHANGED <<signalAborted, elapsed, abortResponse,
                 callVars, appVars, uploadVars, dashVars,
                 mountVars>>

NextAbort ==
  \/ AbortUploadCall
  \/ MinutePasses
  \/ TimeoutFires
  \/ FetchAborted
  \/ FetchFails
  \/ FetchResolves
  \/ BodyRead

(***************************************************************************)
(* SpecUpload: the schema upload page (SchemaUpload.tsx), the root         *)
(* component's refresh counter and the router.                             *)
(***************************************************************************)
\* Uploads started in one behaviour.
MaxUploads == 2

\* `if (prev >= 90)`: the simulated progress stops ticking from here.
ProgressCeiling == 90
\* `Math.random() * 15`: a tick adds an amount in [0, 15); the model draws
\* the whole numbers 0 .. 14 of that range.
ProgressStep == 15
\* `setUploadProgress(100)`
ProgressDone == 100

Routes == {"/", "/schema-upload", "/dashboard"}
Files == {"schema.json", "data.csv"}
NoFile == "null"
NoToast == [title |-> "", description |-> "", variant |-> "default"]

UploadResponses ==
  { HttpResponse(200, JsonObject([schema_id |-> "abc"])),
    HttpResponse(200, JsonInvalid),
    HttpResponse(500, JsonObject([detail |-> "Unsupported file"])),
    HttpResponse(500, JsonObject([detail |-> ""])),
    NetworkFailure }

\* useState initial values of SchemaUpload.
UploadPageMounted ==
  /\ uploadStatus = "idle"
  /\ uploadProgress = 0
  /\ uploadedFile = NoFile

InitApp ==
  /\ route = "/schema-upload"
  /\ schemaRefreshKey = 0
  /\ toast = NoToast

InitUpload ==
  /\ UploadPageMounted
  /\ progressInterval = FALSE
  /\ uploadRequest = FALSE
  /\ orphanUploads = <<>>
  /\ navTimers = 0
  /\ timerNavigations = 0
  /\ uploadsStarted = 0
  /\ lastUpload = [response |-> NoResponse, effects |-> <<>>]

\* The page instance goes away: its state is dropped with it, while its
\* request stays in flight (nothing cancels it) and its interval keeps
\* calling a setter that no longer has a component to update.
UnmountUploadPage ==
  /\ uploadStatus' = "idle"
  /\ uploadProgress' = 0
  /\ uploadedFile' = NoFile
  /\ progressInterval' = FALSE
  /\ uploadRequest' = FALSE
  /\ orphanUploads' =
       IF uploadRequest THEN Append(orphanUploads, uploadedFile) ELSE orphanUploads

\* (mutant) the drop zone stays on the success panel.
DropZoneRenderedAfterSuccess == uploadStatus \in {"idle", "success"}

\* (mutant) the drop zone stays while the upload runs.
DropZoneRenderedWhileUploading == uploadStatus \in {"idle", "uploading"}

\* `{uploadStatus === 'idle' && (<div ... onDrop={handleDrop}> ... <input
\* type="file" onChange={handleFileSelect} /> ...)}`: the only two callers of
\* handleFileUpload are rendered only while uploadStatus is 'idle'.
DropZoneRendered == uploadStatus = "idle"

\* handleFileUpload up to its `await uploadSchema(file)`.
HandleFileUpload ==
  /\ route = "/schema-upload"
  /\ DropZoneRendered
  /\ uploadsStarted < MaxUploads
  /\ \E file \in Files : uploadedFile' = file
  /\ uploadStatus' = "uploading"
  /\ uploadProgress' = 0
  /\ progressInterval' = TRUE
  /\ uploadRequest' = TRUE
  /\ uploadsStarted' = uploadsStarted + 1
  /\ UNCHANGED <<orphanUploads, navTimers, timerNavigations, lastUpload,
                 appVars, apiVars, dashVars,
                 mountVars>>

\* `return prev + Math.random() * 15`
ProgressAfterTick(prev, inc) == prev + inc

\* One firing of the 200 ms interval callback.
ProgressTick ==
  /\ progressInterval
  /\ IF uploadProgress >= ProgressCeiling
       THEN /\ progressInterval' = FALSE
            /\ UNCHANGED uploadProgress
       ELSE /\ \E inc \in 0 .. (ProgressStep - 1) :
                 uploadProgress' = ProgressAfterTick(uploadProgress, inc)
            /\ UNCHANGED progressInterval
  /\ UNCHANGED <<uploadStatus, uploadedFile, uploadRequest, orphanUploads,
                 navTimers, timerNavigations, uploadsStarted, lastUpload,
                 appVars, apiVars, dashVars,
                 mountVars>>

UploadSuccessToast(file) ==
  [title |-> "Schema uploaded successfully!",
   description |-> file \o " has been processed and is ready for querying.",
   variant |-> "default"]

\* (mutant) the notification shows the generic text whatever was thrown.
UploadFailedToastGeneric(message) ==
  [title |-> "Upload failed",
   description |->
     "There was an error processing your schema file. Please try again.",
   variant |-> "destructive"]

\* `error.message || "There was an error ..."`
UploadFailedToast(message) ==
  [title |-> "Upload failed",
   description |->
     IF message # "" THEN message
     ELSE "There was an error processing your schema file. Please try again.",
   variant |-> "destructive"]

\* How often the call named e occurs in the sequence of calls.
RECURSIVE Occurrences(_, _)
Occurrences(effects, e) ==
  IF effects = <<>> THEN 0
  ELSE (IF Head(effects) = e THEN 1 ELSE 0) + Occurrences(Tail(effects), e)

\* (mutant) the callback is invoked a second time on the way out.
SuccessEffectsCallbackTwice ==
  <<"setUploadProgress", "setUploadStatus", "toast", "onSchemaUploaded",
    "setTimeout", "onSchemaUploaded", "clearInterval">>

\* The calls handleFileUpload makes after `await uploadSchema(file)` has
\* resolved (the rest of the try block, then finally), in order.
SuccessEffects ==
  <<"setUploadProgress", "setUploadStatus", "toast", "onSchemaUploaded",
    "setTimeout", "clearInterval">>

\* The calls it makes after the await has rejected (catch, then finally).
FailureEffects == <<"setUploadStatus", "toast", "clearInterval">>

\* What the continuation does outside the component once uploadSchema
\* resolved: toast, onSchemaUploaded (App: k => k + 1), setTimeout(navigate).
UploadResolvedEffects(file) ==
  /\ toast' = UploadSuccessToast(file)
  /\ schemaRefreshKey' =
       schemaRefreshKey + Occurrences(SuccessEffects, "onSchemaUploaded")
  /\ navTimers' = navTimers + Occurrences(SuccessEffects, "setTimeout")

\* handleFileUpload from the settling of `await uploadSchema(file)` to its
\* end (try, catch and finally), for the mounted instance.
UploadSettle ==
  /\ uploadRequest
  /\ \E r \in UploadResponses :
       LET outcome == uploadSchema(r) IN
       IF outcome.type = "return"
         THEN /\ uploadProgress' = ProgressDone
              /\ uploadStatus' = "success"
              /\ UploadResolvedEffects(uploadedFile)
              /\ lastUpload' = [response |-> r, effects |-> SuccessEffects]
         ELSE /\ uploadStatus' = "error"
              /\ toast' = UploadFailedToast(outcome.message)
              /\ lastUpload' = [response |-> r, effects |-> FailureEffects]
              /\ UNCHANGED <<uploadProgress, schemaRefreshKey, navTimers>>
  /\ progressInterval' = FALSE
  /\ uploadRequest' = FALSE
  /\ UNCHANGED <<uploadedFile, orphanUploads, timerNavigations, uploadsStarted,
                 route, apiVars, dashVars,
                 mountVars>>

\* The same continuation for a request whose page instance was unmounted: the
\* state setters have nothing to update, the rest happens as above.
\* s without its i-th element.
RemoveAt(s, i) == SubSeq(s, 1, i - 1) \o SubSeq(s, i + 1, Len(s))

OrphanUploadSettle ==
  /\ \E i \in 1 .. Len(orphanUploads), r \in UploadResponses :
       LET outcome == uploadSchema(r) IN
       /\ IF outcome.type = "return"
            THEN /\ UploadResolvedEffects(orphanUploads[i])
                 /\ lastUpload' = [response |-> r, effects |-> SuccessEffects]
            ELSE /\ toast' = UploadFailedToast(outcome.message)
                 /\ lastUpload' = [response |-> r, effects |-> FailureEffects]
                 /\ UNCHANGED <<schemaRefreshKey, navTimers>>
       /\ orphanUploads' = RemoveAt(orphanUploads, i)
  /\ UNCHANGED <<uploadStatus, uploadProgress, uploadedFile, progressInterval,
                 uploadRequest, timerNavigations, uploadsStarted, route, apiVars, dashVars,
                 mountVars>>

\* resetUpload: 'Upload Another' (success panel) or 'Try Again' (error panel).
\* (mutant) resetUpload cancels the redirect armed last.
NavTimersAfterResetCleared == IF navTimers > 0 THEN navTimers - 1 ELSE navTimers

\* resetUpload holds no handle on the redirect timers: they stay armed.
NavTimersAfterReset == navTimers

ResetUpload ==
  /\ route = "/schema-upload"
  /\ uploadStatus \in {"success", "error"}
  /\ uploadedFile' = NoFile
  /\ uploadStatus' = "idle"
  /\ uploadProgress' = 0
  /\ navTimers' = NavTimersAfterReset
  /\ UNCHANGED <<progressInterval, uploadRequest, orphanUploads,
                 timerNavigations, uploadsStarted, lastUpload, appVars, apiVars,
                 dashVars,
                 mountVars>>

\* 'Start Querying' on the success panel: navigate('/dashboard').
StartQuerying ==
  /\ route = "/schema-upload"
  /\ uploadStatus = "success"
  /\ route' = "/dashboard"
  /\ UnmountUploadPage
  /\ UNCHANGED <<navTimers, timerNavigations, uploadsStarted, lastUpload,
                 schemaRefreshKey, toast, apiVars, dashVars,
                 mountVars>>

\* The 2000 ms timer set on success fires.  Nothing ever clears it.
NavTimerFires ==
  /\ navTimers > 0
  /\ navTimers' = navTimers - 1
  /\ timerNavigations' = timerNavigations + 1
  /\ route' = "/dashboard"
  /\ IF route = "/schema-upload" /\ route' # route
       THEN UnmountUploadPage
       ELSE UNCHANGED <<uploadStatus, uploadProgress, uploadedFile,
                        progressInterval, uploadRequest, orphanUploads>>
  /\ UNCHANGED <<uploadsStarted, lastUpload, schemaRefreshKey, toast, apiVars,
                 dashVars,
                 mountVars>>

\* The user follows a link to another route (the route table of App).
UserNavigates ==
  /\ \E to \in Routes \ {route} : route' = to
  /\ IF route = "/schema-upload"
       THEN UnmountUploadPage
       ELSE UNCHANGED <<uploadStatus, uploadProgress, uploadedFile,
                        progressInterval, uploadRequest, orphanUploads>>
  /\ UNCHANGED <<navTimers, timerNavigations, uploadsStarted, lastUpload,
                 schemaRefreshKey, toast, apiVars, dashVars,
                 mountVars>>

NextUpload ==
  \/ HandleFileUpload
  \/ ProgressTick
  \/ UploadSettle
  \/ OrphanUploadSettle
  \/ ResetUpload
  \/ StartQuerying
  \/ NavTimerFires
  \/ UserNavigates

(***************************************************************************)
(* SpecDash: one dashboard session (Dashboard.tsx with the API calls).     *)
(* Text the user types and SQL text are sequences of characters, so that   *)
(* trim() is computed; messages and analysis text are strings.             *)
(***************************************************************************)
WhitespaceChars == {" ", "\t", "\n"}

RECURSIVE TrimStart(_)
TrimStart(s) ==
  IF s # <<>> /\ Head(s) \in WhitespaceChars THEN TrimStart(Tail(s)) ELSE s

RECURSIVE TrimEnd(_)
TrimEnd(s) ==
  IF s # <<>> /\ s[Len(s)] \in WhitespaceChars
    THEN TrimEnd(SubSeq(s, 1, Len(s) - 1))
    ELSE s

\* (mutant) the text is tested without trimming.
TrimMissing(s) == s

\* String.prototype.trim
Trim(s) == TrimEnd(TrimStart(s))

\* What the user can type into the question box and into the SQL editor.
QueryTexts == {<<>>, <<" ">>, <<"a", " ">>}
SqlTexts == {<<"\n">>, <<"x">>}

Row1 == [id |-> 1]

\* Responses of GET /api/schema/status.
StatusResponses ==
  { HttpResponse(200, JsonObject([status |-> "active", schema_id |-> "abc",
                                  schema_name |-> "sales"])),
    HttpResponse(200, JsonObject([status |-> "active", schema_id |-> "xyz",
                                  schema_name |-> "hr"])),
    HttpResponse(200, JsonObject([status |-> "active"])),
    HttpResponse(200, JsonObject([status |-> "inactive", schema_id |-> "abc"])),
    HttpResponse(500, JsonObject([detail |-> "db down"])),
    NetworkFailure }

\* Responses of POST /api/query/generate-sql.
GenerateResponses ==
  { HttpResponse(200, JsonObject([generated_sql |-> <<"s">>])),
    HttpResponse(400, JsonObject([detail |-> "cannot translate"])),
    HttpResponse(502, JsonInvalid) }

\* Responses of POST /api/query/execute.
ExecuteResponses ==
  { HttpResponse(200, JsonObject([results |-> <<Row1>>])),
    HttpResponse(200, JsonObject([results |-> <<>>])),
    HttpResponse(200, JsonObject([message |-> "ok"])),
    NetworkFailure }

\* Responses of POST /api/query/analyze.
AnalyzeResponses ==
  { HttpResponse(200, JsonObject([analysis |-> "One customer."])),
    HttpResponse(200, JsonNull),
    HttpResponse(429, JsonObject([detail |-> "rate limited"])),
    HttpResponse(500, JsonObject([detail |-> ""])),
    HttpResponse(502, JsonInvalid) }

\* A request in flight: the client function called and its arguments.
Call(op, args) == [op |-> op, args |-> args]
NoCall == Call("none", <<>>)

\* No invocation of the handler is running.  A running one is at the await
\* named by pc, holds the state values its closure captured at the click,
\* has the request `call` in flight, and has so far called the client
\* functions listed in `requests` (one HTTP request each).
IdleGenChain ==
  [pc |-> "idle", naturalLanguageQuery |-> <<>>, call |-> NoCall,
   requests |-> <<>>]
IdleExecChain ==
  [pc |-> "idle", naturalLanguageQuery |-> <<>>, editableSQL |-> <<>>,
   call |-> NoCall, requests |-> <<>>]

\* The settlement r of the fetch made by client function op.
Received(op, r) == [op |-> op, response |-> r]

\* useState initial values of Dashboard.
InitDash ==
  /\ naturalLanguageQuery = <<>>
  /\ generatedSQL = <<>>
  /\ editableSQL = <<>>
  /\ isEditingSQL = FALSE
  /\ queryResults = <<>>
  /\ naturalLanguageResponse = ""
  /\ isGenerating = FALSE
  /\ isExecuting = FALSE
  /\ isAnalyzing = FALSE
  /\ genChain = IdleGenChain
  /\ execChain = IdleExecChain
  /\ lastResponse = Received("none", NoResponse)
  /\ generatedFrom = <<>>

\* `null` as the value of schemaName.
NoSchemaName == "null"

\* useState initial values of the state the mount effects write; both
\* effects have issued their request.
InitMount ==
  /\ hasSchema = FALSE
  /\ schemaName = NoSchemaName
  /\ connections = <<>>
  /\ selectedConnectionId = ""
  /\ connectionsFetch = TRUE
  /\ statusCheck = TRUE
  /\ mountResponse = [listConnections |-> NoResponse,
                      fetchActiveSchema |-> NoResponse]

Toast(title, description, variant) ==
  [title |-> title, description |-> description, variant |-> variant]

EnterQueryToast ==
  Toast("Please enter a query",
        "Type your question in natural language to generate SQL.", "destructive")
NoSqlToast ==
  Toast("No SQL to execute",
        "Please generate or write a SQL query first.", "destructive")
NoSchemaToast(what) ==
  Toast("No active schema found",
        "Please upload a schema before " \o what \o " SQL.", "destructive")
SqlGeneratedToast ==
  Toast("SQL generated successfully!",
        "Review the query below and execute when ready.", "default")
\* `error.message || "Please try again ..."`
GenerateErrorToast(message) ==
  Toast("Error generating SQL",
        IF message # "" THEN message
        ELSE "Please try again or contact support if the issue persists.",
        "destructive")
\* `Retrieved ${result.results?.length || 0} rows.`
ExecutedToast(n) ==
  Toast("Query executed successfully!",
        "Retrieved " \o ToString(n) \o " rows.", "default")
\* `error.message || "Please check your SQL syntax ..."`
ExecuteErrorToast(message) ==
  Toast("Error executing query",
        IF message # "" THEN message
        ELSE "Please check your SQL syntax and try again.", "destructive")
SqlSavedToast ==
  Toast("SQL changes saved", "Your SQL modifications have been saved.", "default")

\* Reading `.<field>` of an awaited value: a TypeError when the value is null.
NullFieldMessage(field) ==
  "Cannot read properties of null (reading '" \o field \o "')"

\* (mutant) the schema's name is taken for its id.
SchemaIdOfName(o) ==
  IF "schema_name" \in DOMAIN o THEN o["schema_name"] ELSE o["schema_id"]

\* `const schemaId = schemaStatus.schema_id;`
SchemaIdOf(o) == o["schema_id"]

\* (mutant) only the schema id is tested.
NoActiveSchemaIdOnly(o) == ~("schema_id" \in DOMAIN o /\ o["schema_id"] # "")

\* `schemaStatus.status !== "active" || !schemaStatus.schema_id`
NoActiveSchema(o) ==
  \/ ~("status" \in DOMAIN o /\ o["status"] = "active")
  \/ ~("schema_id" \in DOMAIN o /\ o["schema_id"] # "")

\* onChange of the question box.
SetNaturalLanguageQuery ==
  /\ \E text \in QueryTexts \ {naturalLanguageQuery} : naturalLanguageQuery' = text
  /\ UNCHANGED <<generatedSQL, generatedFrom, editableSQL, isEditingSQL, queryResults,
                 naturalLanguageResponse, isGenerating, isExecuting, isAnalyzing,
                 genChain, execChain, appVars, uploadVars, apiVars, mountVars,
                 lastResponse>>

\* handleEditSQL: the Edit / Save button, rendered when generatedSQL is truthy.
HandleEditSQL ==
  /\ generatedSQL # <<>>
  /\ isEditingSQL' = ~isEditingSQL
  /\ toast' = IF isEditingSQL THEN SqlSavedToast ELSE toast
  /\ UNCHANGED <<naturalLanguageQuery, generatedSQL, generatedFrom, editableSQL, queryResults,
                 naturalLanguageResponse, isGenerating, isExecuting, isAnalyzing,
                 genChain, execChain, route, schemaRefreshKey, uploadVars, apiVars, mountVars,
                 lastResponse>>

\* onChange of the SQL editor, rendered when generatedSQL is truthy and
\* isEditingSQL is set.
SetEditableSQL ==
  /\ generatedSQL # <<>>
  /\ isEditingSQL
  /\ \E text \in SqlTexts \ {editableSQL} : editableSQL' = text
  /\ UNCHANGED <<naturalLanguageQuery, generatedSQL, generatedFrom, isEditingSQL, queryResults,
                 naturalLanguageResponse, isGenerating, isExecuting, isAnalyzing,
                 genChain, execChain, appVars, uploadVars, apiVars, mountVars,
                 lastResponse>>

(***************************************************************************)
(* handleGenerateSQL                                                       *)
(***************************************************************************)
\* (mutant) the button stays enabled while a generation runs.
GenerateButtonEnabledWhileBusy == Trim(naturalLanguageQuery) # <<>>

\* `disabled={isGenerating || !naturalLanguageQuery.trim()}`
GenerateButtonEnabled == ~isGenerating /\ Trim(naturalLanguageQuery) # <<>>

\* handleGenerateSQL from its start to `await fetchActiveSchema()`.
HandleGenerateSQL ==
  IF Trim(naturalLanguageQuery) = <<>>
    THEN /\ toast' = EnterQueryToast
         /\ UNCHANGED <<isGenerating, genChain>>
    ELSE /\ isGenerating' = TRUE
         /\ genChain' =
              [IdleGenChain EXCEPT
                 !.pc = "status",
                 !.naturalLanguageQuery = naturalLanguageQuery,
                 !.call = Call("fetchActiveSchema", <<>>),
                 !.requests = Append(@, "fetchActiveSchema")]
         /\ UNCHANGED toast

\* A click on the Generate button.
ClickGenerate ==
  /\ GenerateButtonEnabled
  /\ HandleGenerateSQL
  /\ UNCHANGED <<naturalLanguageQuery, generatedSQL, generatedFrom, editableSQL, isEditingSQL,
                 queryResults, naturalLanguageResponse, isExecuting, isAnalyzing,
                 execChain, route, schemaRefreshKey, uploadVars, apiVars, mountVars,
                 lastResponse>>

\* (mutant) the catch reports the error and issues the failed call again.
GenerateCatchRetries(message) ==
  /\ toast' = GenerateErrorToast(message)
  /\ genChain' = [genChain EXCEPT !.requests = Append(@, genChain.call.op)]
  /\ UNCHANGED <<isGenerating, generatedSQL, generatedFrom, editableSQL>>

\* (mutant) the finally block is missing: the catch leaves the flag set.
GenerateCatchNoFinally(message) ==
  /\ toast' = GenerateErrorToast(message)
  /\ genChain' = IdleGenChain
  /\ UNCHANGED <<isGenerating, generatedSQL, generatedFrom, editableSQL>>

\* (mutant) a failed generation clears the SQL panel.
GenerateCatchClearsSQL(message) ==
  /\ toast' = GenerateErrorToast(message)
  /\ isGenerating' = FALSE
  /\ genChain' = IdleGenChain
  /\ generatedSQL' = <<>>
  /\ editableSQL' = <<>>
  /\ generatedFrom' = <<>>

\* The catch and finally blocks of handleGenerateSQL.
GenerateCatch(message) ==
  /\ toast' = GenerateErrorToast(message)
  /\ isGenerating' = FALSE
  /\ genChain' = IdleGenChain
  /\ UNCHANGED <<generatedSQL, generatedFrom, editableSQL>>

\* handleGenerateSQL from the settling of fetchActiveSchema to the next await
\* (generateSQL) or to its end.
GenerateStatusSettlesWith(r) ==
  /\ genChain.pc = "status"
  /\ lastResponse' = Received("fetchActiveSchema", r)
  /\ LET schemaStatus == fetchActiveSchema(r) IN
     IF schemaStatus.type = "throw"
       THEN GenerateCatch(schemaStatus.message)
     ELSE IF schemaStatus.value.kind = "null"
       THEN GenerateCatch(NullFieldMessage("status"))
     ELSE IF NoActiveSchema(schemaStatus.value.fields)
       THEN /\ toast' = NoSchemaToast("generating")
            /\ isGenerating' = FALSE
            /\ genChain' = IdleGenChain
            /\ UNCHANGED <<generatedSQL, generatedFrom, editableSQL>>
     ELSE /\ genChain' =
               [genChain EXCEPT
                  !.pc = "generate",
                  !.call = Call("generateSQL",
                             <<genChain.naturalLanguageQuery,
                               SchemaIdOf(schemaStatus.value.fields)>>),
                  !.requests = Append(@, "generateSQL")]
          /\ UNCHANGED <<toast, isGenerating, generatedSQL, generatedFrom, editableSQL>>
  /\ UNCHANGED <<naturalLanguageQuery, isEditingSQL, queryResults,
                 naturalLanguageResponse, isExecuting, isAnalyzing, execChain,
                 route, schemaRefreshKey, uploadVars, apiVars, mountVars>>

GenerateStatusSettles == \E r \in StatusResponses : GenerateStatusSettlesWith(r)

\* (mutant) only the display SQL is stored.
EditableAfterGenerateKept(sql) == editableSQL

\* `setEditableSQL(sql)`
EditableAfterGenerate(sql) == sql

\* (mutant) a new generation clears the rows of the previous execution.
QueryResultsAfterGenerateCleared == <<>>

\* handleGenerateSQL never calls setQueryResults: the rows stay.
QueryResultsAfterGenerate == queryResults

\* handleGenerateSQL from the settling of generateSQL to its end.
GenerateSettlesWith(r) ==
  /\ genChain.pc = "generate"
  /\ lastResponse' = Received("generateSQL", r)
  /\ LET result == generateSQL(r) IN
     IF result.type = "throw"
       THEN GenerateCatch(result.message)
     ELSE IF result.value.kind = "null"
       THEN GenerateCatch(NullFieldMessage("generated_sql"))
     ELSE LET sql == result.value.fields["generated_sql"] IN
          /\ generatedSQL' = sql
          /\ generatedFrom' = genChain.call.args[1]
          /\ editableSQL' = EditableAfterGenerate(sql)
          /\ toast' = SqlGeneratedToast
          /\ isGenerating' = FALSE
          /\ genChain' = IdleGenChain
  /\ queryResults' = QueryResultsAfterGenerate
  /\ UNCHANGED <<naturalLanguageQuery, isEditingSQL,
                 naturalLanguageResponse, isExecuting, isAnalyzing, execChain,
                 route, schemaRefreshKey, uploadVars, apiVars, mountVars>>

GenerateSettles == \E r \in GenerateResponses : GenerateSettlesWith(r)

(***************************************************************************)
(* handleExecuteSQL                                                        *)
(***************************************************************************)
\* The Execute button is rendered when generatedSQL is truthy, with
\* `disabled={isExecuting}`.
ExecuteButtonEnabled == generatedSQL # <<>> /\ ~isExecuting

\* handleExecuteSQL from its start to `await fetchActiveSchema()`.
HandleExecuteSQL ==
  IF Trim(editableSQL) = <<>>
    THEN /\ toast' = NoSqlToast
         /\ UNCHANGED <<isExecuting, execChain>>
    ELSE /\ isExecuting' = TRUE
         /\ execChain' =
              [IdleExecChain EXCEPT
                 !.pc = "status",
                 !.naturalLanguageQuery = naturalLanguageQuery,
                 !.editableSQL = editableSQL,
                 !.call = Call("fetchActiveSchema", <<>>),
                 !.requests = Append(@, "fetchActiveSchema")]
         /\ UNCHANGED toast

\* A click on the Execute button.
ClickExecute ==
  /\ ExecuteButtonEnabled
  /\ HandleExecuteSQL
  /\ UNCHANGED <<naturalLanguageQuery, generatedSQL, generatedFrom, editableSQL, isEditingSQL,
                 queryResults, naturalLanguageResponse, isGenerating, isAnalyzing,
                 genChain, route, schemaRefreshKey, uploadVars, apiVars, mountVars,
                 lastResponse>>

\* (mutant) the outer catch reports the error and the handler goes on to the
\* analysis of the rows it has.
ExecuteCatchContinues(message) ==
  /\ toast' = ExecuteErrorToast(message)
  /\ isAnalyzing' = TRUE
  /\ execChain' =
       [execChain EXCEPT
          !.pc = "analyze",
          !.call = Call("analyzeResults",
                     <<queryResults, execChain.naturalLanguageQuery,
                       execChain.editableSQL>>),
          !.requests = Append(@, "analyzeResults")]
  /\ UNCHANGED <<queryResults, naturalLanguageResponse, isExecuting>>

\* The outer catch and finally blocks of handleExecuteSQL.
ExecuteCatch(message) ==
  /\ toast' = ExecuteErrorToast(message)
  /\ isExecuting' = FALSE
  /\ execChain' = IdleExecChain
  /\ UNCHANGED <<queryResults, naturalLanguageResponse, isAnalyzing>>

\* `executeSQL(editableSQL, schemaId)`
ExecuteArgs(o) ==
  <<execChain.editableSQL, SchemaIdOf(o)>>

\* handleExecuteSQL from the settling of fetchActiveSchema to the next await
\* (executeSQL) or to its end.
ExecuteStatusSettlesWith(r) ==
  /\ execChain.pc = "status"
  /\ lastResponse' = Received("fetchActiveSchema", r)
  /\ LET schemaStatus == fetchActiveSchema(r) IN
     IF schemaStatus.type = "throw"
       THEN ExecuteCatch(schemaStatus.message)
     ELSE IF schemaStatus.value.kind = "null"
       THEN ExecuteCatch(NullFieldMessage("status"))
     ELSE IF NoActiveSchema(schemaStatus.value.fields)
       THEN /\ toast' = NoSchemaToast("executing")
            /\ isExecuting' = FALSE
            /\ execChain' = IdleExecChain
            /\ UNCHANGED <<queryResults, naturalLanguageResponse, isAnalyzing>>
     ELSE /\ execChain' =
               [execChain EXCEPT
                  !.pc = "execute",
                  !.call = Call("executeSQL",
                             ExecuteArgs(schemaStatus.value.fields)),
                  !.requests = Append(@, "executeSQL")]
          /\ UNCHANGED <<toast, isExecuting, queryResults,
                         naturalLanguageResponse, isAnalyzing>>
  /\ UNCHANGED <<naturalLanguageQuery, generatedSQL, generatedFrom, editableSQL, isEditingSQL,
                 isGenerating, genChain, route, schemaRefreshKey, uploadVars,
                 apiVars, mountVars>>

ExecuteStatusSettles == \E r \in StatusResponses : ExecuteStatusSettlesWith(r)

\* `result.results || []`
ResultRows(o) == IF "results" \in DOMAIN o THEN o["results"] ELSE <<>>

\* (mutant) analysis runs whenever `results` is present (an empty array is
\* truthy).
ShouldAnalyzeAnyArray(o) == "results" \in DOMAIN o

\* `result.results && result.results.length > 0`
ShouldAnalyze(o) == "results" \in DOMAIN o /\ Len(o["results"]) > 0

\* (mutant) the question and the SQL are read from the component's current
\* state instead of the handler's closure.
AnalyzeArgsCurrentState(o) ==
  <<o["results"], naturalLanguageQuery, editableSQL>>

\* `analyzeResults(result.results, naturalLanguageQuery, editableSQL)`: the
\* two state values are the ones the handler's closure captured at the click.
AnalyzeArgs(o) ==
  <<o["results"], execChain.naturalLanguageQuery, execChain.editableSQL>>

\* (mutant) the previous analysis is not cleared.
ClearedAnalysisKept == naturalLanguageResponse

\* `setNaturalLanguageResponse(""); // Clear previous analysis`
ClearedAnalysis == ""

\* handleExecuteSQL from the settling of executeSQL to the next await
\* (analyzeResults) or to its end.
ExecuteSettlesWith(r) ==
  /\ execChain.pc = "execute"
  /\ lastResponse' = Received("executeSQL", r)
  /\ LET result == executeSQL(r) IN
     IF result.type = "throw"
       THEN ExecuteCatch(result.message)
     ELSE IF result.value.kind = "null"
       THEN ExecuteCatch(NullFieldMessage("results"))
     ELSE LET o == result.value.fields IN
          /\ queryResults' = ResultRows(o)
          /\ naturalLanguageResponse' = ClearedAnalysis
          /\ toast' = ExecutedToast(Len(ResultRows(o)))
          /\ IF ShouldAnalyze(o)
               THEN /\ isAnalyzing' = TRUE
                    /\ execChain' =
                         [execChain EXCEPT
                            !.pc = "analyze",
                            !.call = Call("analyzeResults", AnalyzeArgs(o)),
                            !.requests = Append(@, "analyzeResults")]
                    /\ UNCHANGED isExecuting
               ELSE /\ isExecuting' = FALSE
                    /\ execChain' = IdleExecChain
                    /\ UNCHANGED isAnalyzing
  /\ UNCHANGED <<naturalLanguageQuery, generatedSQL, generatedFrom, editableSQL, isEditingSQL,
                 isGenerating, genChain, route, schemaRefreshKey, uploadVars,
                 apiVars, mountVars>>

ExecuteSettles == \E r \in ExecuteResponses : ExecuteSettlesWith(r)

\* (mutant) the inline text leaves the error's message out.
AnalysisFailedTextNoMessage(message) == "Failed to generate analysis"

\* `"Failed to generate analysis: " + (e.message || "Unknown error")`
AnalysisFailedText(message) ==
  "Failed to generate analysis: "
    \o (IF message # "" THEN message ELSE "Unknown error")

\* handleExecuteSQL from the settling of analyzeResults to its end: the inner
\* try / catch / finally, then the outer finally.
AnalyzeSettlesWith(r) ==
  /\ execChain.pc = "analyze"
  /\ lastResponse' = Received("analyzeResults", r)
  /\ LET analysis == analyzeResults(r) IN
     naturalLanguageResponse' =
       IF analysis.type = "throw"
         THEN AnalysisFailedText(analysis.message)
       ELSE IF analysis.value.kind = "null"
         THEN AnalysisFailedText(NullFieldMessage("analysis"))
       ELSE analysis.value.fields["analysis"]
  /\ execChain' = IdleExecChain
  /\ isAnalyzing' = FALSE
  /\ isExecuting' = FALSE
  /\ UNCHANGED <<naturalLanguageQuery, generatedSQL, generatedFrom, editableSQL, isEditingSQL,
                 queryResults, isGenerating, genChain, appVars, uploadVars,
                 apiVars, mountVars>>

AnalyzeSettles == \E r \in AnalyzeResponses : AnalyzeSettlesWith(r)

(***************************************************************************)
(* The dashboard's two mount effects.                                      *)
(***************************************************************************)

Conn1 == [id |-> "c1", name |-> "warehouse"]
Conn2 == [id |-> "c2", name |-> "replica"]

\* Responses of GET /api/connections.
ConnectionsResponses ==
  { HttpResponse(200, JsonObject([connections |-> <<Conn1, Conn2>>])),
    HttpResponse(200, JsonObject([connections |-> <<>>])),
    HttpResponse(200, JsonObject([message |-> "none"])),
    HttpResponse(200, JsonNull),
    HttpResponse(500, JsonObject([detail |-> "db down"])),
    NetworkFailure }

\* Responses of GET /api/schema/status as the mount effect may see them.
MountStatusResponses == StatusResponses \cup {HttpResponse(200, JsonNull)}

\* The catch block of fetchConnections.
ConnectionsErrorToast(message) ==
  Toast("Error fetching connections", message, "destructive")

\* `res.connections || []`
ConnectionsOf(o) == IF "connections" \in DOMAIN o THEN o["connections"] ELSE <<>>

\* (mutant) the badge flag follows the gates' test.
BadgeLoadedWithId(o) == ~NoActiveSchema(o)

\* `status.status === "active"`
BadgeLoaded(o) == "status" \in DOMAIN o /\ o["status"] = "active"

\* `status.schema_name || null`
SchemaNameOf(o) ==
  IF "schema_name" \in DOMAIN o /\ o["schema_name"] # ""
    THEN o["schema_name"] ELSE NoSchemaName

\* fetchConnections from the settling of listConnections to its end.
FetchConnectionsSettlesWith(r) ==
  /\ connectionsFetch
  /\ connectionsFetch' = FALSE
  /\ mountResponse' = [mountResponse EXCEPT !.listConnections = r]
  /\ LET res == listConnections(r) IN
     IF res.type = "throw"
       THEN /\ toast' = ConnectionsErrorToast(res.message)
            /\ UNCHANGED <<connections, selectedConnectionId>>
     ELSE IF res.value.kind = "null"
       THEN /\ toast' = ConnectionsErrorToast(NullFieldMessage("connections"))
            /\ UNCHANGED <<connections, selectedConnectionId>>
     ELSE LET list == ConnectionsOf(res.value.fields) IN
          /\ connections' = list
          /\ selectedConnectionId' =
               IF Len(list) > 0 THEN list[1].id ELSE selectedConnectionId
          /\ UNCHANGED toast
  /\ UNCHANGED <<hasSchema, schemaName, statusCheck, route, schemaRefreshKey, uploadVars,
                 apiVars, dashVars>>

FetchConnectionsSettles ==
  \E r \in ConnectionsResponses : FetchConnectionsSettlesWith(r)

\* checkSchemaStatus from the settling of fetchActiveSchema to its end.
CheckSchemaStatusSettlesWith(r) ==
  /\ statusCheck
  /\ statusCheck' = FALSE
  /\ mountResponse' = [mountResponse EXCEPT !.fetchActiveSchema = r]
  /\ LET status == fetchActiveSchema(r) IN
     IF status.type = "throw" \/ status.value.kind = "null"
       THEN /\ hasSchema' = FALSE
            /\ schemaName' = NoSchemaName
     ELSE /\ hasSchema' = BadgeLoaded(status.value.fields)
          /\ schemaName' = SchemaNameOf(status.value.fields)
  /\ UNCHANGED <<connections, selectedConnectionId, connectionsFetch, appVars,
                 uploadVars, apiVars, dashVars>>

CheckSchemaStatusSettles ==
  \E r \in MountStatusResponses : CheckSchemaStatusSettlesWith(r)

NextDash ==
  \/ SetNaturalLanguageQuery
  \/ HandleEditSQL
  \/ SetEditableSQL
  \/ ClickGenerate
  \/ GenerateStatusSettles
  \/ GenerateSettles
  \/ ClickExecute
  \/ ExecuteStatusSettles
  \/ ExecuteSettles
  \/ AnalyzeSettles

Init == InitApi /\ InitAbort /\ InitApp /\ InitUpload /\ InitDash /\ InitMount

SpecApi == Init /\ [][NextApi]_vars

SpecUpload == Init /\ [][NextUpload]_vars

SpecDash == Init /\ [][NextDash]_vars

SpecAbort == Init /\ [][NextAbort]_vars

\* Timers fire: a pending setTimeout callback is eventually run.
SpecUploadFair == SpecUpload /\ WF_vars(NavTimerFires)

\* The three components side by side: a behaviour follows one API client
\* call, or one visit of the upload page, or one dashboard session, the
\* other two staying as constructed.
ApiQuiet == InitApi
UploadQuiet == InitUpload /\ route = "/schema-upload" /\ schemaRefreshKey = 0
DashQuiet == InitDash

NextApp ==
  \/ UploadQuiet /\ DashQuiet /\ NextApi
  \/ ApiQuiet /\ DashQuiet /\ NextUpload
  \/ ApiQuiet /\ UploadQuiet /\ NextDash

SpecApp == Init /\ [][NextApp]_vars

\* A dashboard session from its mount: the two mount effects settle in
\* either order, and the user's chains are followed in the sessions whose
\* mount found connections and a named active schema.
MountSettled ==
  /\ ~connectionsFetch /\ ~statusCheck
  /\ hasSchema /\ schemaName # NoSchemaName /\ selectedConnectionId # ""

NextMount ==
  \/ FetchConnectionsSettles
  \/ CheckSchemaStatusSettles
  \/ MountSettled /\ NextDash

SpecMount == Init /\ [][NextMount]_vars

(***************************************************************************)
(* Claims about the API client (checked under SpecApi).                    *)
(***************************************************************************)
\* The call settled on a non-2xx response.
ApiFailedResponse ==
  /\ apiPc = "settled"
  /\ apiResponse.net = "ok"
  /\ ~ResponseOk(apiResponse.status)

\* ... whose body is a JSON object with a non-empty `detail` string.
ApiHasDetail ==
  /\ apiResponse.body.kind = "object"
  /\ "detail" \in DOMAIN apiResponse.body.fields
  /\ apiResponse.body.fields["detail"] # ""

\* ... whose body carries no parseable detail: not JSON, or an object without
\* `detail`, or with an empty one.
ApiNoDetail ==
  \/ apiResponse.body.kind = "invalid"
  \/ /\ apiResponse.body.kind = "object"
     /\ \/ "detail" \notin DOMAIN apiResponse.body.fields
        \/ apiResponse.body.fields["detail"] = ""

\* The operations whose error path reads the body.
DetailOps == {"uploadSchema", "generateSQL", "executeSQL", "analyzeResults"}

\* C1 (as stated): for every operation, a non-2xx response with a `detail`
\* string makes the call fail with exactly that string as the message.
C1_Original ==
  (ApiFailedResponse /\ ApiHasDetail)
    => apiOutcome = Throw(apiResponse.body.fields["detail"])

\* C1 (amended): that holds for uploadSchema, generateSQL, executeSQL and
\* analyzeResults; fetchActiveSchema and listConnections never read the body
\* and fail with their fixed message whatever `detail` says.
C1_DetailMessage ==
  (ApiFailedResponse /\ ApiHasDetail)
    => IF apiOp \in DetailOps
         THEN apiOutcome = Throw(apiResponse.body.fields["detail"])
         ELSE apiOutcome = Throw(Fallback(apiOp))

C1_Witness ==
  /\ ApiFailedResponse /\ ApiHasDetail
  /\ apiOp = "executeSQL"
  /\ apiResponse.status = 500
  /\ apiOutcome = Throw("rate limited")

\* C2 (as stated): for every operation, a non-2xx response without a parseable
\* `detail` makes the call fail with the operation's fixed fallback string.
C2_Original ==
  (ApiFailedResponse /\ ApiNoDetail) => apiOutcome = Throw(Fallback(apiOp))

(***************************************************************************)
(* Claims about uploadSchema with the abort timer (checked under           *)
(* SpecAbort).                                                             *)
(***************************************************************************)
\* The one text of the function that names a timeout; it is written to
\* console.error by the timer callback.
TimeoutMessages == {"Upload aborted due to timeout"}

\* The error tells its receiver that a timeout happened: by its name (the
\* DOMException of a timed-out signal) or by its message.
IdentifiesTimeout(e) == e.name = "TimeoutError" \/ e.message \in TimeoutMessages

\* No response arrived within ten minutes: the timer ran and aborted the
\* request, and the call has ended.
TimedOutCall == abortPc = "done" /\ signalAborted

\* C17 (as stated): when the request has produced no response within ten
\* minutes it is aborted and the call fails with an error that identifies
\* the failure as a timeout.
C17_Original ==
  TimedOutCall
    => /\ abortResponse = NoResponse
       /\ abortOutcome.type = "throw"
       /\ IdentifiesTimeout(abortOutcome)

(***************************************************************************)
(* Claims about the upload page (checked under SpecUpload, and under       *)
(* SpecUploadFair where a timer has to fire).                              *)
(***************************************************************************)
\* C3 (as stated): within one upload session (the page stays mounted and is
\* not reset) the progress value never decreases, and it is 100 or more only
\* once the upload request has resolved successfully.
C3_Original ==
  [][ /\ (uploadStatus # "idle" /\ uploadStatus' # "idle")
          => uploadProgress' >= uploadProgress
      /\ uploadProgress' >= ProgressDone => uploadStatus' = "success" ]_vars

\* C4 (as stated): in every reachable state the progress value is in 0..100.
C4_Original == uploadProgress \in 0 .. ProgressDone

\* The mounted instance's request resolves successfully in this step.
MountedUploadResolves ==
  /\ uploadRequest /\ ~uploadRequest'
  /\ schemaRefreshKey' = schemaRefreshKey + 1

\* C7: a successful upload sets status 'success' and progress 100, and for
\* every successful upload a timer-driven navigation eventually happens, and
\* it goes to the dashboard route, whatever the user does in between.
C7_SuccessNavigates ==
  /\ [][MountedUploadResolves
          => (uploadStatus' = "success" /\ uploadProgress' = ProgressDone)]_vars
  /\ [][timerNavigations' > timerNavigations => route' = "/dashboard"]_vars
  /\ \A k \in 1 .. MaxUploads :
       (schemaRefreshKey >= k) ~> (timerNavigations >= k)

\* Two uploads succeeded, the second started after a reset, and both
\* redirects have fired.
C7_Witness ==
  /\ schemaRefreshKey = 2
  /\ timerNavigations = 2
  /\ route = "/dashboard"
  /\ orphanUploads = <<>>

\* The mounted page instance survives the step (a route change away from
\* /schema-upload unmounts it and a later visit mounts a fresh one).
SameUploadPage == route = "/schema-upload" /\ route' = "/schema-upload"

\* The status changes of the state machine, each with the event causing it.
FileChosen == uploadsStarted' = uploadsStarted + 1
RequestSettles == uploadRequest /\ ~uploadRequest'
ResetAction == uploadedFile' = NoFile /\ uploadProgress' = 0

\* C11: the upload status of a page instance changes only idle -> uploading
\* (a file is chosen), uploading -> success and uploading -> error (the
\* request settles), success -> idle and error -> idle (reset).
C11_StatusTransitions ==
  [][ (SameUploadPage /\ uploadStatus' # uploadStatus)
        => \/ /\ uploadStatus = "idle" /\ uploadStatus' = "uploading"
              /\ FileChosen
           \/ /\ uploadStatus = "uploading"
              /\ uploadStatus' \in {"success", "error"}
              /\ RequestSettles
           \/ /\ uploadStatus \in {"success", "error"}
              /\ uploadStatus' = "idle"
              /\ ResetAction ]_vars

\* On a page that showed a success and was reset, a second upload failed.
C11_Witness ==
  /\ route = "/schema-upload"
  /\ uploadStatus = "error"
  /\ uploadsStarted = 2
  /\ schemaRefreshKey = 1
  /\ navTimers = 1 /\ timerNavigations = 0
  /\ orphanUploads = <<>>

\* C13: an uploadSchema call is started only while the status is idle, and
\* then the page instance has no other call in flight; while its call is in
\* flight the status is 'uploading', so no second one can start.
C13_SingleUploadInFlight ==
  /\ [][FileChosen => (uploadStatus = "idle" /\ ~uploadRequest)]_vars
  /\ [](uploadRequest => uploadStatus = "uploading")
  /\ [](uploadStatus = "uploading" => uploadRequest)

\* The second upload of a page is in flight, after the first one failed.
C13_Witness ==
  /\ route = "/schema-upload"
  /\ uploadRequest /\ uploadStatus = "uploading"
  /\ uploadsStarted = 2
  /\ toast.title = "Upload failed"
  /\ orphanUploads = <<>>

(***************************************************************************)
(* Claims about the dashboard (checked under SpecDash).                    *)
(***************************************************************************)
\* Empty or whitespace-only text.
IsBlank(s) == \A i \in 1 .. Len(s) : s[i] \in WhitespaceChars

\* No request goes out: both chains stay as they are.
NoNetworkCall == UNCHANGED <<genChain, execChain>>

\* The handler ran its validation branch: a click with blank text.
BlankGenerateClick == ClickGenerate /\ IsBlank(naturalLanguageQuery)
BlankExecuteClick == ClickExecute /\ IsBlank(editableSQL)

GenStatusStep == genChain.pc = "status" /\ genChain'.pc # "status"
ExecStatusStep == execChain.pc = "status" /\ execChain'.pc # "status"

\* The status fetch succeeded with a status other than "active".
StatusNotActive(r) ==
  /\ r.net = "ok" /\ ResponseOk(r.status) /\ r.body.kind = "object"
  /\ ~("status" \in DOMAIN r.body.fields /\ r.body.fields["status"] = "active")

\* C6: when the status fetched inside a chain is not "active", the chain calls
\* none of generateSQL / executeSQL / analyzeResults, shows the no-schema
\* notification, changes no SQL, result or analysis state, and ends with its
\* busy flag false.
C6_NoSchemaAborts ==
  [][ /\ (GenStatusStep /\ StatusNotActive(lastResponse'.response))
         => /\ genChain' = IdleGenChain
            /\ toast'.title = "No active schema found"
            /\ ~isGenerating'
            /\ UNCHANGED <<generatedSQL, editableSQL, queryResults,
                           naturalLanguageResponse, execChain>>
      /\ (ExecStatusStep /\ StatusNotActive(lastResponse'.response))
         => /\ execChain' = IdleExecChain
            /\ toast'.title = "No active schema found"
            /\ ~isExecuting'
            /\ UNCHANGED <<generatedSQL, editableSQL, queryResults,
                           naturalLanguageResponse, genChain>> ]_vars

\* An execute chain got status "inactive" (with a schema id) and ended.
C6_Witness ==
  /\ lastResponse.op = "fetchActiveSchema"
  /\ StatusNotActive(lastResponse.response)
  /\ "schema_id" \in DOMAIN lastResponse.response.body.fields
  /\ toast = NoSchemaToast("executing")
  /\ execChain = IdleExecChain /\ ~isExecuting

\* A step in which `await generateSQL(...)` settles.
GenerateStep == genChain.pc = "generate" /\ genChain'.pc # "generate"

\* The call succeeded with a body {generated_sql: s}.
GeneratedSqlOf(r) == r.body.fields["generated_sql"]
GenerateSucceeded(r) ==
  /\ r.net = "ok" /\ ResponseOk(r.status) /\ r.body.kind = "object"
  /\ "generated_sql" \in DOMAIN r.body.fields

\* C8: right after a generate chain succeeds with {generated_sql: s}, the
\* display SQL and the editable SQL both equal s, whatever the editable SQL
\* was edited to while the request was in flight.
C8_GeneratedSqlStored ==
  [][ (GenerateStep /\ GenerateSucceeded(lastResponse'.response))
        => /\ generatedSQL' = GeneratedSqlOf(lastResponse'.response)
           /\ editableSQL' = GeneratedSqlOf(lastResponse'.response) ]_vars

\* A second generation completed while the SQL editor was open.
C8_Witness ==
  /\ lastResponse.op = "generateSQL"
  /\ GenerateSucceeded(lastResponse.response)
  /\ toast = SqlGeneratedToast
  /\ isEditingSQL
  /\ generatedSQL = <<"s">> /\ editableSQL = <<"s">>

\* A step in which `await executeSQL(...)` settles.
ExecuteStep == execChain.pc = "execute" /\ execChain'.pc # "execute"

\* The call succeeded with no rows: `results` is empty or missing.
ZeroRows(r) ==
  /\ r.net = "ok" /\ ResponseOk(r.status) /\ r.body.kind = "object"
  /\ \/ "results" \notin DOMAIN r.body.fields
     \/ r.body.fields["results"] = <<>>

\* C9: when executeSQL returns zero rows the chain ends without calling
\* analyzeResults, isAnalyzing stays false, the stored rows are empty and the
\* analysis text is empty.
C9_ZeroRowsNoAnalysis ==
  [][ (ExecuteStep /\ ZeroRows(lastResponse'.response))
        => /\ execChain' = IdleExecChain
           /\ ~isAnalyzing /\ ~isAnalyzing'
           /\ ~isExecuting'
           /\ queryResults' = <<>>
           /\ naturalLanguageResponse' = "" ]_vars

\* An execution returned a body without `results` and the chain has ended.
C9_Witness ==
  /\ lastResponse.op = "executeSQL"
  /\ ZeroRows(lastResponse.response)
  /\ "results" \notin DOMAIN lastResponse.response.body.fields
  /\ toast = ExecutedToast(0)
  /\ execChain = IdleExecChain /\ ~isExecuting /\ ~isAnalyzing
  /\ queryResults = <<>> /\ naturalLanguageResponse = ""

\* A step in which `await analyzeResults(...)` settles.
AnalyzeStep == execChain.pc = "analyze" /\ execChain'.pc # "analyze"

\* C10: when rows were returned and the analysis call fails with message m,
\* the analysis text becomes 'Failed to generate analysis: ' followed by m
\* (by 'Unknown error' when m is empty), no notification is shown, the rows
\* stay, and the handler ends normally with its flags false.
C10_AnalysisFailureInline ==
  [][ (AnalyzeStep /\ analyzeResults(lastResponse'.response).type = "throw")
        => LET m == analyzeResults(lastResponse'.response).message IN
           /\ naturalLanguageResponse' =
                "Failed to generate analysis: "
                  \o (IF m = "" THEN "Unknown error" ELSE m)
           /\ toast' = toast
           /\ queryResults # <<>> /\ queryResults' = queryResults
           /\ execChain' = IdleExecChain
           /\ ~isExecuting' /\ ~isAnalyzing' ]_vars

\* The analysis call failed with 'rate limited' after rows had arrived.
C10_Witness ==
  /\ lastResponse.op = "analyzeResults"
  /\ lastResponse.response.status = 429
  /\ naturalLanguageResponse = "Failed to generate analysis: rate limited"
  /\ queryResults = <<Row1>>
  /\ toast = ExecutedToast(1)
  /\ ~isExecuting /\ ~isAnalyzing

\* The handler issues its analyzeResults call in this step.
AnalyzeCallStarts ==
  execChain'.call.op = "analyzeResults" /\ execChain.call.op # "analyzeResults"

\* C12: in an execute chain a failed status fetch or a failed executeSQL call
\* ends the chain, so that analyzeResults is called only in the step in which
\* executeSQL succeeded; and when analyzeResults then fails, the rows stored
\* from that execution (the ones handed to analyzeResults) stay stored.
C12_ExecuteFailureGates ==
  /\ [][ /\ (ExecStatusStep
               /\ fetchActiveSchema(lastResponse'.response).type = "throw")
             => (execChain' = IdleExecChain /\ ~isAnalyzing')
         /\ (ExecuteStep /\ executeSQL(lastResponse'.response).type = "throw")
             => (execChain' = IdleExecChain /\ ~isAnalyzing')
         /\ AnalyzeCallStarts
             => /\ ExecuteStep
                /\ executeSQL(lastResponse'.response).type = "return"
                /\ queryResults' = execChain'.call.args[1]
         /\ (AnalyzeStep
               /\ analyzeResults(lastResponse'.response).type = "throw")
             => /\ queryResults = execChain.call.args[1]
                /\ queryResults' = queryResults ]_vars
  /\ [](execChain.pc = "analyze" => queryResults = execChain.call.args[1])

\* An analysis failed on body that is not JSON and left its rows; a later
\* execution of the same SQL failed at the network and left them too.
C12_Witness ==
  /\ lastResponse = Received("executeSQL", NetworkFailure)
  /\ toast = ExecuteErrorToast(FetchFailedMessage)
  /\ execChain = IdleExecChain /\ ~isExecuting /\ ~isAnalyzing
  /\ queryResults = <<Row1>>
  /\ naturalLanguageResponse =
       "Failed to generate analysis: " \o JsonSyntaxErrorMessage

\* A chain is pending: its handler is suspended at an await.
GenChainPending == genChain.pc # "idle"
ExecChainPending == execChain.pc # "idle"

\* C14 (as stated): in no reachable state are a generate chain and an
\* execute -> analyze chain pending at the same time.  (The chain records
\* hold one invocation per handler; a second invocation of a handler could
\* start only on a click its button's `disabled` rules out.)
C14_Original == ~(GenChainPending /\ ExecChainPending)

(***************************************************************************)
(* Claims that span the API client, the upload page and the dashboard      *)
(* (checked under SpecApp).                                                *)
(***************************************************************************)
\* s is an initial part of t.
IsPrefix(s, t) == Len(s) <= Len(t) /\ s = SubSeq(t, 1, Len(s))

\* The client functions a handler calls, in the order of its awaits.
GenRequestOrder == <<"fetchActiveSchema", "generateSQL">>
ExecRequestOrder == <<"fetchActiveSchema", "executeSQL", "analyzeResults">>

\* uploadSchema calls in flight, of the mounted page and of unmounted ones.
UploadsInFlight == (IF uploadRequest THEN 1 ELSE 0) + Len(orphanUploads)

\* One client call: one request goes out, it settles once, and the outcome
\* is the parsed body or one thrown error and never changes afterwards.
ApiCallSettlesOnce ==
  /\ [][apiPc' # apiPc
          => <<apiPc, apiPc'>> \in {<<"idle", "pending">>,
                                    <<"pending", "settled">>}]_vars
  /\ [](apiPc = "settled" <=> apiOutcome # Pending)
  /\ [](apiOutcome # Pending
          => \/ apiOutcome.type = "throw"
             \/ apiOutcome = Return(apiResponse.body))
  /\ [][apiOutcome # Pending => apiOutcome' = apiOutcome]_vars

\* One trigger of a dashboard handler: the requests made so far are an
\* initial part of the handler's sequence of awaits (so at most one per
\* endpoint), the last one is the one in flight, and a step of the chain
\* either ends it or issues the next request.
ChainNeverRetries ==
  /\ [](/\ IsPrefix(genChain.requests, GenRequestOrder)
        /\ IsPrefix(execChain.requests, ExecRequestOrder))
  /\ [](/\ GenChainPending
           => genChain.call.op = genChain.requests[Len(genChain.requests)]
        /\ ExecChainPending
           => execChain.call.op = execChain.requests[Len(execChain.requests)])
  /\ [][/\ (GenChainPending /\ genChain' # genChain)
           => \/ genChain' = IdleGenChain
              \/ Len(genChain'.requests) = Len(genChain.requests) + 1
        /\ (ExecChainPending /\ execChain' # execChain)
           => \/ execChain' = IdleExecChain
              \/ Len(execChain'.requests) = Len(execChain.requests) + 1]_vars

\* One chosen file: one uploadSchema call goes out, and calls go out at no
\* other step.
UploadNeverRetries ==
  /\ [][FileChosen => UploadsInFlight' = UploadsInFlight + 1]_vars
  /\ [][UploadsInFlight' > UploadsInFlight => FileChosen]_vars
  /\ [](UploadsInFlight <= uploadsStarted)

\* C15: no call is retried: a client call makes one request and settles
\* once; a generate chain makes at most one status fetch and one generate
\* call, an execute chain at most one status fetch, one execute call and
\* one analyze call, and an upload one upload call.
C15_NoRetries ==
  ApiCallSettlesOnce /\ ChainNeverRetries /\ UploadNeverRetries

\* Both handlers are at their last await, each request made once.
C15_Witness ==
  /\ genChain.pc = "generate" /\ genChain.requests = GenRequestOrder
  /\ execChain.pc = "analyze" /\ execChain.requests = ExecRequestOrder

\* A chain ends in this step: its handler returns.
GenChainEnds == GenChainPending /\ genChain' = IdleGenChain
ExecChainEnds == ExecChainPending /\ execChain' = IdleExecChain

\* C16: when a generate chain ends, however it ends, isGenerating is false,
\* and it is false whenever no generate chain runs; likewise isExecuting and
\* isAnalyzing for the execute chain; when the upload request of a page
\* settles its status becomes 'success' or 'error', 'uploading' is shown only
\* while the request is in flight, and in 'success' and 'error' the reset
\* action is available and leads to 'idle'.
C16_ReturnsToInteractive ==
  /\ [][GenChainEnds => ~isGenerating']_vars
  /\ [][ExecChainEnds => (~isExecuting' /\ ~isAnalyzing')]_vars
  /\ [](~GenChainPending => ~isGenerating)
  /\ [](~ExecChainPending => (~isExecuting /\ ~isAnalyzing))
  /\ [][(SameUploadPage /\ RequestSettles)
          => uploadStatus' \in {"success", "error"}]_vars
  /\ [](uploadStatus = "uploading" => uploadRequest)
  /\ []((route = "/schema-upload" /\ uploadStatus \in {"success", "error"})
          => ENABLED ResetUpload)
  /\ [][ResetUpload => uploadStatus' = "idle"]_vars

\* A generate chain failed at generateSQL on a body that is not JSON, and
\* the page is interactive again.
C16_Witness ==
  /\ lastResponse.op = "generateSQL"
  /\ toast = GenerateErrorToast(JsonSyntaxErrorMessage)
  /\ genChain = IdleGenChain /\ ~isGenerating
  /\ GenerateButtonEnabled

(***************************************************************************)
(* Further claims about the upload page (checked under SpecUpload).        *)
(***************************************************************************)
\* An uploadSchema call settles in this step and handleFileUpload resumes.
UploadSettleStep == UploadsInFlight' = UploadsInFlight - 1

\* The call resolves on r: a 2xx response whose body parses.
UploadResolvesOn(r) ==
  r.net = "ok" /\ ResponseOk(r.status) /\ r.body.kind # "invalid"

\* The place of the first call named e among the calls made.
Position(effects, e) ==
  CHOOSE i \in 1 .. Len(effects) :
    effects[i] = e /\ \A j \in 1 .. (i - 1) : effects[j] # e

\* C18: an upload that resolves invokes onSchemaUploaded exactly once, after
\* setting the status to 'success' and before scheduling the navigation, and
\* the refresh counter goes up by exactly 1; an upload that fails does not
\* invoke it and leaves the counter; the counter changes at no other step
\* and never decreases.
C18_CallbackOncePerSuccess ==
  /\ [][ UploadSettleStep
          => LET effects == lastUpload'.effects IN
             IF UploadResolvesOn(lastUpload'.response)
               THEN /\ Occurrences(effects, "onSchemaUploaded") = 1
                    /\ Position(effects, "setUploadStatus")
                         < Position(effects, "onSchemaUploaded")
                    /\ Position(effects, "onSchemaUploaded")
                         < Position(effects, "setTimeout")
                    /\ RequestSettles => uploadStatus' = "success"
                    /\ schemaRefreshKey' = schemaRefreshKey + 1
                    /\ navTimers' = navTimers + 1
               ELSE /\ Occurrences(effects, "onSchemaUploaded") = 0
                    /\ schemaRefreshKey' = schemaRefreshKey
                    /\ navTimers' = navTimers ]_vars
  /\ [][schemaRefreshKey' # schemaRefreshKey => UploadSettleStep]_vars
  /\ [][schemaRefreshKey' >= schemaRefreshKey]_vars

\* One upload failed and, after a reset, the next one succeeded: the counter
\* is 1 and one redirect is pending.
C18_Witness ==
  /\ route = "/schema-upload"
  /\ uploadsStarted = 2
  /\ uploadStatus = "success"
  /\ UploadResolvesOn(lastUpload.response)
  /\ lastUpload.effects = SuccessEffects
  /\ schemaRefreshKey = 1
  /\ navTimers = 1
  /\ orphanUploads = <<>>

\* The text shown for a thrown error with message m.
FailureText(m) ==
  IF m = ""
    THEN "There was an error processing your schema file. Please try again."
    ELSE m

\* C19: when the upload request of a page rejects, the status becomes
\* 'error', the notification 'Upload failed' carries the thrown message (the
\* generic text when it is empty) and no navigation is scheduled; in 'error'
\* no upload can be started, and an upload starts only from 'idle' with no
\* file reference and progress 0, which from 'error' only the reset action
\* brings about.
C19_UploadFailure ==
  /\ [][ (UploadSettleStep /\ RequestSettles
           /\ ~UploadResolvesOn(lastUpload'.response))
          => /\ uploadStatus' = "error"
             /\ toast'.title = "Upload failed"
             /\ toast'.variant = "destructive"
             /\ toast'.description =
                  FailureText(uploadSchema(lastUpload'.response).message)
             /\ navTimers' = navTimers
             /\ timerNavigations' = timerNavigations
             /\ route' = route ]_vars
  /\ [](uploadStatus = "error" => ~ENABLED HandleFileUpload)
  /\ [][ FileChosen
          => (uploadStatus = "idle" /\ uploadedFile = NoFile
              /\ uploadProgress = 0) ]_vars
  /\ [][ (SameUploadPage /\ uploadStatus = "error" /\ uploadStatus' # "error")
          => (ResetAction /\ uploadStatus' = "idle") ]_vars

\* The server refused the file: the page shows the error panel and the
\* server's text, the file is still referenced, no redirect is pending.
C19_Witness ==
  /\ route = "/schema-upload"
  /\ uploadStatus = "error"
  /\ lastUpload.response.net = "ok" /\ lastUpload.response.status = 500
  /\ toast = UploadFailedToast("Unsupported file")
  /\ uploadedFile # NoFile
  /\ navTimers = 0 /\ schemaRefreshKey = 0

(***************************************************************************)
(* Further claims about the dashboard (checked under SpecDash).            *)
(***************************************************************************)
\* The handler issues its generateSQL / executeSQL call in this step.
GenerateCallStarts ==
  genChain'.call.op = "generateSQL" /\ genChain.call.op # "generateSQL"
ExecuteCallStarts ==
  execChain'.call.op = "executeSQL" /\ execChain.call.op # "executeSQL"

\* r is a successful status response, "active", with a non-empty schema id.
ActiveSchemaResponse(r) ==
  /\ r.net = "ok" /\ ResponseOk(r.status) /\ r.body.kind = "object"
  /\ "status" \in DOMAIN r.body.fields /\ r.body.fields["status"] = "active"
  /\ "schema_id" \in DOMAIN r.body.fields /\ r.body.fields["schema_id"] # ""

\* C20: a generateSQL or executeSQL call goes out only in the step in which
\* the chain's own fetchActiveSchema call settled with status "active" and a
\* non-empty schema_id, it carries exactly that schema_id (with the text the
\* chain captured at the click), and the call keeps its arguments while it
\* is in flight.
C20_SchemaIdFromChainStatus ==
  /\ [][ GenerateCallStarts
          => /\ GenStatusStep
             /\ genChain.requests = <<"fetchActiveSchema">>
             /\ lastResponse'.op = "fetchActiveSchema"
             /\ ActiveSchemaResponse(lastResponse'.response)
             /\ genChain'.call.args =
                  <<genChain.naturalLanguageQuery,
                    lastResponse'.response.body.fields["schema_id"]>> ]_vars
  /\ [][ ExecuteCallStarts
          => /\ ExecStatusStep
             /\ execChain.requests = <<"fetchActiveSchema">>
             /\ lastResponse'.op = "fetchActiveSchema"
             /\ ActiveSchemaResponse(lastResponse'.response)
             /\ execChain'.call.args =
                  <<execChain.editableSQL,
                    lastResponse'.response.body.fields["schema_id"]>> ]_vars
  /\ [][ /\ (genChain.pc = "generate" /\ genChain'.pc = "generate")
            => genChain'.call = genChain.call
         /\ (execChain.pc = "execute" /\ execChain'.pc = "execute")
            => execChain'.call = execChain.call ]_vars

\* Two chains run side by side, each with the schema id of its own status
\* response: the generation with "xyz", the execution with "abc".
C20_Witness ==
  /\ genChain.pc = "generate" /\ genChain.call.args[2] = "xyz"
  /\ execChain.pc = "execute" /\ execChain.call.args[2] = "abc"
  /\ lastResponse.op = "fetchActiveSchema"
  /\ lastResponse.response.body.fields["schema_id"] = "xyz"

\* C21: the rows handed to analyzeResults are the rows the chain's executeSQL
\* call returned, and the SQL handed to it is the SQL that call was sent,
\* whatever the editable SQL and the question have become meanwhile; the
\* call keeps its arguments while it is in flight.
C21_AnalyzeArgsFromChain ==
  /\ [][ AnalyzeCallStarts
          => /\ lastResponse'.op = "executeSQL"
             /\ execChain'.call.args[1]
                  = lastResponse'.response.body.fields["results"]
             /\ execChain.call.op = "executeSQL"
             /\ execChain'.call.args[3] = execChain.call.args[1] ]_vars
  /\ [][ (execChain.pc = "analyze" /\ execChain'.pc = "analyze")
          => execChain'.call = execChain.call ]_vars

\* An analysis is in flight for SQL the user typed, while a generation that
\* landed during the execution has replaced the editable SQL.
C21_Witness ==
  /\ execChain.pc = "analyze"
  /\ execChain.call.args[1] = <<Row1>>
  /\ execChain.call.args[3] = <<"x">>
  /\ editableSQL = <<"s">>
  /\ lastResponse.op = "executeSQL"

\* A step of handleGenerateSQL / handleExecuteSQL: a click on its button or
\* the settling of one of its awaits.
GenerateHandlerStep == ClickGenerate \/ genChain' # genChain
ExecuteHandlerStep == ClickExecute \/ execChain' # execChain

\* C22: a step of the generate handler changes none of isExecuting,
\* isAnalyzing, the result rows, the analysis text; a step of the execute
\* handler changes none of isGenerating, the generated SQL, the editable SQL.
C22_ChainsOwnState ==
  /\ [][ GenerateHandlerStep
          => UNCHANGED <<isExecuting, isAnalyzing, queryResults,
                         naturalLanguageResponse, execChain>> ]_vars
  /\ [][ ExecuteHandlerStep
          => UNCHANGED <<isGenerating, generatedSQL, editableSQL,
                         genChain>> ]_vars

\* A second generation has completed while the rows and the analysis of an
\* execution of the first SQL are on display.
C22_Witness ==
  /\ lastResponse.op = "generateSQL"
  /\ toast = SqlGeneratedToast
  /\ genChain = IdleGenChain /\ execChain = IdleExecChain
  /\ queryResults = <<Row1>>
  /\ naturalLanguageResponse = "One customer."

(***************************************************************************)
(* Claims about the dashboard's mount effects (checked under SpecMount).   *)
(***************************************************************************)

\* A step in which a mount effect's request settles.
ConnectionsSettleStep == connectionsFetch /\ ~connectionsFetch'
StatusCheckSettleStep == statusCheck /\ ~statusCheck'

\* The response is a 2xx JSON object whose `status` is "active".
StatusSaysActive(r) ==
  /\ r.net = "ok" /\ ResponseOk(r.status) /\ r.body.kind = "object"
  /\ "status" \in DOMAIN r.body.fields
  /\ r.body.fields["status"] = "active"

\* The name the response carries, `null` when it carries none.
NameCarried(r) ==
  IF /\ r.net = "ok" /\ ResponseOk(r.status) /\ r.body.kind = "object"
     /\ "schema_name" \in DOMAIN r.body.fields
     /\ r.body.fields["schema_name"] # ""
    THEN r.body.fields["schema_name"] ELSE NoSchemaName

\* C23: once the mount's status fetch has settled the badge flag is true
\* exactly when the response said "active" and the badge name is the
\* response's schema_name or null (a failed fetch gives false and null), and
\* that settlement shows no notification; a failed connection fetch shows
\* the "Error fetching connections" notification and leaves the schema flag
\* and name alone; a connection fetch that returns a non-empty list selects
\* its first connection; and the arguments of executeSQL are the SQL and the
\* schema id, never the selected connection.
C23_MountEffects ==
  /\ [](~statusCheck
          => /\ hasSchema = StatusSaysActive(mountResponse.fetchActiveSchema)
             /\ schemaName =
                  IF fetchActiveSchema(mountResponse.fetchActiveSchema).type
                       = "throw"
                    THEN NoSchemaName
                    ELSE NameCarried(mountResponse.fetchActiveSchema))
  /\ [][StatusCheckSettleStep => toast' = toast]_vars
  /\ [][ConnectionsSettleStep
          /\ listConnections(mountResponse'.listConnections).type = "throw"
          => /\ toast' = Toast("Error fetching connections",
                               listConnections(mountResponse'.listConnections)
                                 .message,
                               "destructive")
             /\ hasSchema' = hasSchema
             /\ schemaName' = schemaName]_vars
  /\ [][ConnectionsSettleStep
          /\ mountResponse'.listConnections
               = HttpResponse(200, JsonObject([connections |-> <<Conn1, Conn2>>]))
          => /\ selectedConnectionId' = "c1"
             /\ connections' = <<Conn1, Conn2>>]_vars
  /\ [][ExecuteCallStarts
          => /\ Len(execChain'.call.args) = 2
             /\ execChain'.call.args[1] = execChain.editableSQL
             /\ execChain'.call.args[2] # selectedConnectionId
             /\ execChain'.call.args[2]
                  = lastResponse'.response.body.fields["schema_id"]]_vars

\* The mount found the schema "sales" and two connections, the first one
\* is selected, and an executeSQL call is in flight.
C23_Witness ==
  /\ ~statusCheck /\ ~connectionsFetch
  /\ hasSchema /\ schemaName = "sales"
  /\ connections = <<Conn1, Conn2>> /\ selectedConnectionId = "c1"
  /\ execChain.pc = "execute"
  /\ execChain.call.args[2] = "abc"

(***************************************************************************)
(* Further claims about the dashboard's chains (checked under SpecDash).   *)
(***************************************************************************)

\* C24: a generate chain starts only on a click on Generate made while no
\* generate chain is pending, and an execute chain only on a click on Execute
\* made while no execute chain is pending: each busy flag is true in exactly the states in
\* which its chain is pending, and each button is enabled only while its busy
\* flag is false.
C24_OneChainPerKind ==
  /\ [](isGenerating <=> GenChainPending)
  /\ [](isExecuting <=> ExecChainPending)
  /\ [](GenerateButtonEnabled => ~isGenerating)
  /\ [](ExecuteButtonEnabled => ~isExecuting)
  /\ [][ClickGenerate => ~GenChainPending /\ GenChainPending']_vars
  /\ [][ClickExecute => ~ExecChainPending]_vars
  /\ [][genChain'.pc = "status" /\ genChain' # genChain
          => ClickGenerate /\ genChain = IdleGenChain]_vars
  /\ [][execChain'.pc = "status" /\ execChain' # execChain
          => ClickExecute /\ execChain = IdleExecChain]_vars

\* Both chains are pending and neither button is enabled although a question
\* is typed and SQL is shown.
C24_Witness ==
  /\ GenChainPending /\ ExecChainPending
  /\ Trim(naturalLanguageQuery) # <<>> /\ generatedSQL # <<>>
  /\ ~GenerateButtonEnabled /\ ~ExecuteButtonEnabled

\* C25: in every state of the dashboard isAnalyzing implies isExecuting, and
\* while isAnalyzing is true the analysis text is the empty string; the step
\* that sets isAnalyzing is the one that stores the new rows.
C25_AnalyzingUnderExecuting ==
  /\ [](isAnalyzing => isExecuting)
  /\ [](isAnalyzing => naturalLanguageResponse = "")
  /\ [](isAnalyzing <=> execChain.pc = "analyze")
  /\ [][~isAnalyzing /\ isAnalyzing'
          => /\ queryResults' = lastResponse'.response.body.fields["results"]
             /\ naturalLanguageResponse' = ""]_vars

\* An execution is being analysed: its rows are shown and the analysis
\* text is empty.
C25_Witness ==
  /\ isAnalyzing /\ isExecuting
  /\ queryResults = <<Row1>>
  /\ naturalLanguageResponse = ""
  /\ execChain.pc = "analyze"

\* The response is a 2xx response whose body is a JSON object.
ObjectReturned(r) ==
  r.net = "ok" /\ ResponseOk(r.status) /\ r.body.kind = "object"

\* This step stores a generation's SQL / an execution's rows.
GenerateSucceeds ==
  /\ genChain.pc = "generate" /\ genChain' = IdleGenChain
  /\ ObjectReturned(lastResponse'.response)
ExecuteSucceeds ==
  /\ execChain.pc = "execute" /\ execChain' # execChain
  /\ ObjectReturned(lastResponse'.response)

\* C26: every step of a generate chain other than the one in which
\* generateSQL succeeded (the click, the status fetch passing, rejecting or
\* reporting no schema, generateSQL rejecting) leaves generatedSQL and
\* editableSQL as they were; every step of an execute chain up to and
\* excluding the one in which executeSQL succeeded leaves the result rows and
\* the analysis text as they were.
C26_FailureKeepsData ==
  /\ [][ClickGenerate \/ (genChain' # genChain /\ ~GenerateSucceeds)
          => UNCHANGED <<generatedSQL, editableSQL>>]_vars
  /\ [][ClickExecute
          \/ (/\ execChain' # execChain /\ execChain.pc # "analyze"
              /\ ~ExecuteSucceeds)
          => UNCHANGED <<queryResults, naturalLanguageResponse>>]_vars
  /\ [][GenChainEnds /\ ~GenerateSucceeds
          => toast' \in {NoSchemaToast("generating")}
                \cup {GenerateErrorToast(m) :
                        m \in {FetchFailedMessage, "Failed to fetch schema status",
                               "cannot translate", JsonSyntaxErrorMessage}}]_vars

\* After an execution with an analysis, a new generation was refused by the
\* server: the SQL of the earlier generation, the rows and the analysis are
\* still shown.
C26_Witness ==
  /\ lastResponse
       = Received("generateSQL",
                  HttpResponse(400, JsonObject([detail |-> "cannot translate"])))
  /\ toast = GenerateErrorToast("cannot translate")
  /\ genChain = IdleGenChain
  /\ generatedSQL = <<"s">> /\ editableSQL = <<"s">>
  /\ queryResults = <<Row1>>
  /\ naturalLanguageResponse = "One customer."

\* C28 (as stated): when analyzeResults is called for SQL that is the
\* generated SQL as generateSQL returned it, its originalQuery argument is the
\* question that was sent to generateSQL in the call that returned that SQL.
C28_Original ==
  [][AnalyzeCallStarts /\ execChain.editableSQL = generatedSQL
       => execChain'.call.args[2] = generatedFrom]_vars

(***************************************************************************)
(* The badge against the gates (checked under SpecMount).                  *)
(***************************************************************************)

\* C27 (as stated): for the status response the mount effect received, the
\* badge flag is true if and only if the test at the head of handleGenerateSQL
\* and handleExecuteSQL lets that response pass.
C27_Original ==
  (~statusCheck /\ ObjectReturned(mountResponse.fetchActiveSchema))
    => (hasSchema <=> ~NoActiveSchema(mountResponse.fetchActiveSchema.body.fields))

(***************************************************************************)
(* The redirect timer of the upload page (checked under SpecUpload).       *)
(***************************************************************************)

\* C29 (as stated): the timer armed by a successful upload navigates, with
\* the upload page on screen, only while the upload status is 'success':
\* never while it is 'idle' or 'uploading'.
C29_Original ==
  [][(timerNavigations' = timerNavigations + 1 /\ route = "/schema-upload")
       => uploadStatus = "success"]_vars

(***************************************************************************)
(* The abort timer of uploadSchema (checked under SpecAbort).              *)
(***************************************************************************)

\* The timer callback runs in this step: `controller.abort()`.
AbortIssued == ~signalAborted /\ signalAborted'

\* C30: once the fetch has settled (the response arrived and the body is
\* being read, or the call has ended either way) the timer is not armed and
\* never becomes armed again; the abort is issued only while the fetch is
\* pending, so a call whose response headers arrived is never aborted,
\* however long the reading of the body takes.
C30_TimerDisarmedOnSettle ==
  /\ [](abortPc \in {"json", "done"} => ~timeout)
  /\ [](abortPc = "json" => ~signalAborted)
  /\ [][AbortIssued => abortPc = "fetch" /\ elapsed >= TimeoutMinutes]_vars
  /\ [][(abortPc \in {"json", "done"})
          => (signalAborted' = signalAborted /\ timeout' = FALSE)]_vars

\* The response arrived before minute 10, the body was read after it, and
\* the call returned without an abort.
C30_Witness ==
  /\ abortPc = "done"
  /\ elapsed > TimeoutMinutes
  /\ ~signalAborted /\ ~timeout
  /\ abortOutcome.type = "return"
====
